---- MODULE Spec2Model ----
(***************************************************************************)
(* Chunked video upload of wsg-imageboard: the server's session table and  *)
(* its four request handlers (init, chunk, complete, abort), the chunk     *)
(* stores (temporary files, in-memory chunk map) and the final artifacts.  *)
(*                                                                         *)
(* Sizes are counted in blocks of 512 KiB: 1 MB = 2 blocks, 5 MB = 10      *)
(* blocks.  A file is a sequence of blocks, each block standing for its    *)
(* 512 KiB of content.  Time is counted in milliseconds.                   *)
(***************************************************************************)
EXTENDS Integers, Sequences, FiniteSets, TLC

(* ------------------------------ bounds -------------------------------- *)
\* largest total-chunk count a chunk request may declare
MaxTotal == 2
\* number of sessions created in one run (objects allocated by init), and
\* number of handlers suspended at the same time
MaxInits == 1
MaxSlots == 2
\* the same for the runs with several sessions
MaxPairInits == 2
MaxPairSlots == 1
\* number of storage faults (failed read, write, unlink, put, mkdir) in one run
MaxFaults == 1
\* number of clock ticks in one run, and the length of a tick in milliseconds
MaxTicks == 1
TickMs == 1000
\* largest file of the uploading client, in blocks, and the largest number of
\* chunks it is sliced into
MaxFileBlocks == 5
MaxUploadTotal == 3
\* number of long waits in one run of the sweep
MaxWaits == 2
\* largest number of chunks of the uploader's file, and number of network
\* errors in one run
MaxClientChunks == 5
MaxDrops == 3

(* ------------------------- program constants -------------------------- *)
ONE_HOUR == 60 * 60 * 1000
\* 5 * 1024 * 1024 bytes, in blocks of 512 KiB
SERVER_CHUNK_BLOCKS == 10
\* 2 * 1024 * 1024 * 1024 bytes, in blocks of 512 KiB
MAX_SIZE_BLOCKS == 4096
\* length of a generated upload id
ID_LEN == 16
\* the client's chunk sizes of 1 MB, 5 MB and 10 MB, in blocks of 512 KiB
MIN_CHUNK_SIZE == 2
DEFAULT_CHUNK_SIZE == 10
MAX_CHUNK_SIZE == 20
\* the client's attempts per request, and the largest chunk count it uploads
\* in parallel
MAX_RETRIES == 3
PARALLEL_CHUNKS == 4

(* --------------------------- value domains ---------------------------- *)
\* no upload id; no file or chunk data under a name
NoId == <<>>
Absent == <<-1>>

\* two of the strings generateUploadId can return
IdOf(c) == [i \in 1..ID_LEN |-> c]
IDS == {IdOf("A"), IdOf("B")}

\* chunk indices and declared totals a chunk request may carry
ReqIndices == (-1)..MaxTotal
Totals == 0..MaxTotal
\* the indices a ledger can hold
MaxIndex ==
  IF MaxTotal >= MaxUploadTotal /\ MaxTotal >= MaxClientChunks THEN MaxTotal
  ELSE IF MaxUploadTotal >= MaxClientChunks THEN MaxUploadTotal
  ELSE MaxClientChunks
Indices == 0..(MaxIndex - 1)

\* the chunk bodies a request may carry (sequences of blocks)
Bodies == {<<1>>}

InitInput(filename, fileSize, contentType, title) ==
  [filename |-> filename, fileSize |-> fileSize, contentType |-> contentType,
   title |-> title]

\* the init requests of the model: two well-formed ones (1 MB and 12 MB
\* declared), and one for each validation failure
InitInputs ==
  { InitInput(<<"a", ".", "m", "p", "4">>, 2, "video/mp4", <<"t">>),
    InitInput(<<".", ".", "/", "b">>, 24, "video/x-msvideo", <<" ", "t">>),
    InitInput(<<>>, 2, "video/mp4", <<"t">>),
    InitInput(<<"a", ".", "m", "p", "4">>, 0, "video/mp4", <<"t">>),
    InitInput(<<"a", ".", "m", "p", "4">>, 2, "video/mp4", <<" ">>),
    InitInput(<<"a", ".", "m", "p", "4">>, 4097, "video/mp4", <<"t">>) }

(* ------------------------------ helpers ------------------------------- *)
Ceil(a, b) == (a + b - 1) \div b

RECURSIVE Filter(_, _)
\* String.replace(/[...]/g, ''): drop every character of `bad`
Filter(s, bad) ==
  IF s = <<>> THEN <<>>
  ELSE IF Head(s) \in bad THEN Filter(Tail(s), bad)
       ELSE <<Head(s)>> \o Filter(Tail(s), bad)

RECURSIVE SquashDots(_)
\* String.replace(/\.\.+/g, '.'): a run of two or more dots becomes one dot
SquashDots(s) ==
  IF Len(s) < 2 THEN s
  ELSE IF Head(s) = "." /\ s[2] = "." THEN SquashDots(Tail(s))
       ELSE <<Head(s)>> \o SquashDots(Tail(s))

RECURSIVE DropLeadingDots(_)
\* String.replace(/^\.+/, '')
DropLeadingDots(s) ==
  IF s # <<>> /\ Head(s) = "." THEN DropLeadingDots(Tail(s)) ELSE s

RECURSIVE TrimLeft(_)
TrimLeft(s) == IF s # <<>> /\ Head(s) = " " THEN TrimLeft(Tail(s)) ELSE s

RECURSIVE TrimRight(_)
TrimRight(s) ==
  IF s # <<>> /\ s[Len(s)] = " " THEN TrimRight(SubSeq(s, 1, Len(s) - 1)) ELSE s

Trim(s) == TrimRight(TrimLeft(s))

IllegalChars == {"<", ">", ":", "\"", "/", "\\", "|", "?", "*"}

sanitizeFileName(filename) ==
  LET t == Trim(DropLeadingDots(SquashDots(Filter(filename, IllegalChars))))
  IN SubSeq(t, 1, IF Len(t) < 255 THEN Len(t) ELSE 255)

\* filename.lastIndexOf('.'), 1-based; 0 when there is no dot
LastDot(s) ==
  LET dots == {i \in 1..Len(s) : s[i] = "."}
  IN IF dots = {} THEN 0 ELSE CHOOSE i \in dots : \A j \in dots : j <= i

getFileExtension(filename) ==
  IF LastDot(filename) # 0 THEN SubSeq(filename, LastDot(filename), Len(filename))
  ELSE <<>>

\* `${uploadId}${fileExtension}`
FinalName(uploadId, filename) ==
  uploadId \o getFileExtension(sanitizeFileName(filename))

\* `${uploadId}_chunk_${chunkIndex}` and `${uploadId}_${chunkIndex}`
ChunkKey(uploadId, chunkIndex) == <<uploadId, chunkIndex>>
Keys == IDS \X Indices

\* Math.round((uploadedChunks / totalChunks) * 100); a division by zero gives
\* Infinity or NaN, which JSON.stringify writes as null: -1 here
Progress(uploaded, total) ==
  IF total = 0 THEN -1 ELSE (200 * uploaded + total) \div (2 * total)

(* --------------------------- client slicing --------------------------- *)
Min(a, b) == IF a < b THEN a ELSE b
Max(a, b) == IF a > b THEN a ELSE b

\* ChunkedUploader.calculateOptimalChunkSize; requestedSize 0 stands for none
calculateOptimalChunkSize(size, requestedSize) ==
  IF requestedSize # 0
  THEN Max(MIN_CHUNK_SIZE, Min(MAX_CHUNK_SIZE, requestedSize))
  ELSE IF size > 500 * 2 THEN MAX_CHUNK_SIZE
  ELSE IF size > 100 * 2 THEN (DEFAULT_CHUNK_SIZE * 3) \div 2
  ELSE IF size > 50 * 2 THEN DEFAULT_CHUNK_SIZE
  ELSE MIN_CHUNK_SIZE

\* Math.ceil(this.file.size / this.chunkSize)
ClientTotal(file, chunkSize) == Ceil(Len(file), chunkSize)

\* file.slice(start, end) with start = chunkIndex * chunkSize and
\* end = Math.min(start + chunkSize, file.size)
Slice(file, chunkIndex, chunkSize) ==
  SubSeq(file, chunkIndex * chunkSize + 1,
         Min(chunkIndex * chunkSize + chunkSize, Len(file)))

\* a file of n blocks, all different
File(n) == [b \in 1..n |-> b]

\* the chunk sizes a caller may ask for: none, 512 KiB, 1.5 MB
RequestedSizes == {0, 1, 3}

\* the uploads that take the chunked path and fit the model's ledger
Uploads ==
  {u \in [file : {File(n) : n \in 1..MaxFileBlocks},
          chunkSize : {calculateOptimalChunkSize(n, q) :
                         n \in 1..MaxFileBlocks, q \in RequestedSizes}] :
     /\ \E q \in RequestedSizes :
          u.chunkSize = calculateOptimalChunkSize(Len(u.file), q)
     /\ Len(u.file) > u.chunkSize
     /\ ClientTotal(u.file, u.chunkSize) <= MaxUploadTotal}

(* ------------------------------- state -------------------------------- *)
VARIABLES
  now,             \* Date.now()
  env,             \* deployment: "local", "cloudVercel" or "cloudDev"
  uploadSessions,  \* globalThis.uploadSessions: upload id -> session object, 0 = no entry
  heap,            \* the session objects, by object number
  nextOid,         \* number of session objects allocated so far
  tempFiles,       \* files under TEMP_DIR: key -> content
  chunkStorage,    \* globalThis.chunkStorage: key -> [data, uploadedAt]
  finalFiles,      \* final artifacts: final name -> content
  slots,           \* the requests whose handler is suspended at an await
  faults,          \* number of storage faults that happened so far
  limit,           \* what one run may use: [inits, slots, faults, ticks]
  client,          \* the uploading client's file and chunk size
  event            \* the response of the request that finished last

vars == <<now, env, uploadSessions, heap, nextOid, tempFiles, chunkStorage,
          finalFiles, slots, faults, limit, client, event>>

Oids == 1..(IF MaxInits > MaxPairInits THEN MaxInits ELSE MaxPairInits)
RIDS == 1..MaxSlots
Blank == [alloc |-> FALSE]
Idle == [kind |-> "idle"]
NoEntry == [data |-> Absent, uploadedAt |-> 0]

USE_CLOUD_STORAGE == env # "local"

\* the session object an upload id maps to
Live(id) == uploadSessions[id] # 0
Sess(id) == heap[uploadSessions[id]]

Ev(op, id, idx, total, status, progress) ==
  [op |-> op, id |-> id, idx |-> idx, total |-> total, status |-> status,
   progress |-> progress]
\* the step answered no request
NoEvent == Ev("none", NoId, -1, -1, 0, -1)
\* the last response has gone out
Ready == event = NoEvent

\* session objects no handler and no table entry refers to are forgotten
Collect(h, table, sl) ==
  [o \in Oids |->
     IF (\E id \in IDS : table[id] = o)
        \/ (\E r \in RIDS : sl[r].kind # "idle" /\ sl[r].oid = o)
     THEN h[o] ELSE Blank]

Start(envs, lim, cl) ==
  /\ now = 0
  /\ env \in envs
  /\ uploadSessions = [id \in IDS |-> 0]
  /\ heap = [o \in Oids |-> Blank]
  /\ nextOid = 0
  /\ tempFiles = [k \in Keys |-> Absent]
  /\ chunkStorage = [k \in Keys |-> NoEntry]
  /\ finalFiles = <<>>
  /\ slots = [r \in RIDS |-> Idle]
  /\ faults = 0
  /\ limit = lim
  /\ client = cl
  /\ event = NoEvent

Envs == {"local", "cloudVercel", "cloudDev"}

Limit(inits, nslots, nfaults, ticks) ==
  [inits |-> inits, slots |-> nslots, faults |-> nfaults, ticks |-> ticks]

\* no client: the requests are arbitrary
NoClient == [file |-> <<>>, chunkSize |-> 0]

Init == Start(Envs, Limit(MaxInits, MaxSlots, MaxFaults, 0), NoClient)

InitPair == Start(Envs, Limit(MaxPairInits, MaxPairSlots, 0, 0), NoClient)

\* sessions for the smallest of the client's files, with long waits between
\* the requests
InitSweep ==
  \E u \in {v \in Uploads : \A w \in Uploads : Len(v.file) <= Len(w.file)} :
    Start(Envs, Limit(MaxPairInits, MaxPairSlots, 0, MaxWaits), u)

\* one session, one handler in flight, no storage fault
InitChunks == Start(Envs, Limit(MaxInits, MaxPairSlots, 0, 0), NoClient)

\* one upload of a client that slices its file
InitUpload == \E u \in Uploads : Start(Envs, Limit(MaxInits, MaxSlots, 0, MaxTicks), u)

(* ------------------------------- clock -------------------------------- *)
\* time passes between two steps
Tick ==
  /\ Ready
  /\ now < limit.ticks * TickMs
  /\ now' = now + TickMs
  /\ UNCHANGED <<env, uploadSessions, heap, nextOid, tempFiles, chunkStorage,
                 finalFiles, slots, faults, limit, client, event>>

\* forty minutes pass between two steps
LONG_WAIT == 40 * 60 * 1000

Wait ==
  /\ Ready
  /\ now < limit.ticks * LONG_WAIT
  /\ now' = now + LONG_WAIT
  /\ UNCHANGED <<env, uploadSessions, heap, nextOid, tempFiles, chunkStorage,
                 finalFiles, slots, faults, limit, client, event>>

(* --------------------------- request slots ---------------------------- *)
\* a handler suspended at an await: the request's inputs, the session object
\* it holds, and its loop position
Slot(kind, pc, id, oid, idx, total, body) ==
  [kind |-> kind, pc |-> pc, id |-> id, oid |-> oid, idx |-> idx,
   total |-> total, body |-> body, i |-> 0, buf |-> <<>>, visited |-> {}]

\* a new request takes the first free slot
Usable == {r \in RIDS : r <= limit.slots}
FreeSlot == CHOOSE r \in Usable : slots[r] = Idle /\ \A q \in Usable : slots[q] = Idle => r <= q
HasFreeSlot == \E r \in Usable : slots[r] = Idle

\* the effect of a step on the table, the session objects and the slots
Commit(table, h, sl) ==
  /\ uploadSessions' = table
  /\ slots' = sl
  /\ heap' = Collect(h, table, sl)

(* ---------------------------- init handler ---------------------------- *)
\* cleanupExpiredSessions: the table without the sessions created over an hour ago
cleanupExpiredSessions(table) ==
  [id \in IDS |->
     IF table[id] # 0 /\ heap[table[id]].createdAt < now - ONE_HOUR THEN 0
     ELSE table[id]]

NewSession(uploadId, in) ==
  [alloc |-> TRUE,
   finalFilename |-> FinalName(uploadId, in.filename),
   fileSize |-> in.fileSize,
   contentType |-> in.contentType,
   chunks |-> <<>>,
   totalChunks |-> Ceil(in.fileSize, SERVER_CHUNK_BLOCKS),
   uploadedChunks |-> 0,
   createdAt |-> now,
   lastActivity |-> now,
   useCloudStorage |-> USE_CLOUD_STORAGE]

\* a validation that cleans the table on its way out: it empties the table;
\* C11 does not hold for it
InitInvalidClearing(in) ==
  /\ Ready
  /\ in.filename = <<>> \/ in.fileSize = 0 \/ Trim(in.title) = <<>>
     \/ in.fileSize > MAX_SIZE_BLOCKS
  /\ Commit([id \in IDS |-> 0], heap, slots)
  /\ event' = Ev("init", NoId, -1, -1,
                 IF in.filename = <<>> \/ in.fileSize = 0 \/ Trim(in.title) = <<>>
                 THEN 400 ELSE 413, -1)
  /\ UNCHANGED <<now, env, nextOid, tempFiles, chunkStorage, finalFiles,
                 faults, limit, client>>

\* POST /api/video/upload/init, rejected by validation
InitInvalid(in) ==
  /\ Ready
  /\ in.filename = <<>> \/ in.fileSize = 0 \/ Trim(in.title) = <<>>
     \/ in.fileSize > MAX_SIZE_BLOCKS
  /\ event' = Ev("init", NoId, -1, -1,
                 IF in.filename = <<>> \/ in.fileSize = 0 \/ Trim(in.title) = <<>>
                 THEN 400 ELSE 413, -1)
  /\ UNCHANGED <<now, env, uploadSessions, heap, nextOid, tempFiles,
                 chunkStorage, finalFiles, slots, faults, limit, client>>

\* POST /api/video/upload/init, the directories cannot be created
InitDirFail(in) ==
  /\ Ready
  /\ ~(in.filename = <<>> \/ in.fileSize = 0 \/ Trim(in.title) = <<>>)
  /\ in.fileSize <= MAX_SIZE_BLOCKS
  /\ ~USE_CLOUD_STORAGE
  /\ faults < limit.faults
  /\ faults' = faults + 1
  /\ Commit(cleanupExpiredSessions(uploadSessions), heap, slots)
  /\ event' = Ev("init", NoId, -1, -1, 500, -1)
  /\ UNCHANGED <<now, env, nextOid, tempFiles, chunkStorage, finalFiles, limit, client>>

\* POST /api/video/upload/init, accepted: generateUploadId returns uploadId
InitOk(in, uploadId) ==
  /\ Ready
  /\ ~(in.filename = <<>> \/ in.fileSize = 0 \/ Trim(in.title) = <<>>)
  /\ in.fileSize <= MAX_SIZE_BLOCKS
  /\ nextOid < limit.inits
  /\ nextOid' = nextOid + 1
  /\ Commit([cleanupExpiredSessions(uploadSessions) EXCEPT ![uploadId] = nextOid + 1],
            [heap EXCEPT ![nextOid + 1] = NewSession(uploadId, in)],
            slots)
  /\ event' = Ev("init", uploadId, -1, -1, 200, -1)
  /\ UNCHANGED <<now, env, tempFiles, chunkStorage, finalFiles, faults, limit, client>>


(* --------------------------- chunk handler ---------------------------- *)
\* cleanupExpiredChunks: the chunk map without the chunks stored over an hour ago
cleanupExpiredChunks(store) ==
  [k \in Keys |->
     IF store[k] # NoEntry /\ store[k].uploadedAt < now - ONE_HOUR THEN NoEntry
     ELSE store[k]]

\* saveChunkToMemory
saveChunkToMemory(store, uploadId, chunkIndex, chunk) ==
  [cleanupExpiredChunks(store) EXCEPT
     ![ChunkKey(uploadId, chunkIndex)] = [data |-> chunk, uploadedAt |-> now]]

\* the head of the handler: the activity stamp and the total-chunk update
Touch(session, totalChunks) ==
  LET s1 == [session EXCEPT !.lastActivity = now]
      s2 == IF s1.totalChunks = 0 THEN [s1 EXCEPT !.totalChunks = totalChunks] ELSE s1
  IN IF s2.totalChunks # totalChunks THEN [s2 EXCEPT !.totalChunks = totalChunks]
     ELSE s2

\* session.chunks.set(chunkIndex, chunkInfo); uploadedChunks = chunks.size
RecordChunk(session, uploadId, chunkIndex, chunk) ==
  LET info == [filename |-> ChunkKey(uploadId, chunkIndex), size |-> Len(chunk),
               uploadedAt |-> now, isCloudStorage |-> session.useCloudStorage]
      ledger == [j \in (DOMAIN session.chunks) \cup {chunkIndex} |->
                   IF j = chunkIndex THEN info ELSE session.chunks[j]]
  IN [session EXCEPT !.chunks = ledger,
                     !.uploadedChunks = Cardinality(DOMAIN ledger),
                     !.lastActivity = now]

\* a request without uploadId, chunkIndex, totalChunks or chunk
ChunkBadRequest ==
  /\ Ready
  /\ event' = Ev("chunk", NoId, -1, -1, 400, -1)
  /\ UNCHANGED <<now, env, uploadSessions, heap, nextOid, tempFiles,
                 chunkStorage, finalFiles, slots, faults, limit, client>>

\* no session under uploadId
ChunkNotFound(uploadId, chunkIndex, totalChunks) ==
  /\ Ready
  /\ ~Live(uploadId)
  /\ event' = Ev("chunk", uploadId, -1, -1, 404, -1)
  /\ UNCHANGED <<now, env, uploadSessions, heap, nextOid, tempFiles,
                 chunkStorage, finalFiles, slots, faults, limit, client>>

\* chunkIndex < 0 || chunkIndex >= totalChunks
ChunkOutOfRange(uploadId, chunkIndex, totalChunks) ==
  /\ Ready
  /\ Live(uploadId)
  /\ chunkIndex < 0 \/ chunkIndex >= totalChunks
  /\ Commit(uploadSessions,
            [heap EXCEPT ![uploadSessions[uploadId]] = Touch(@, totalChunks)],
            slots)
  /\ event' = Ev("chunk", uploadId, chunkIndex, totalChunks, 400, -1)
  /\ UNCHANGED <<now, env, nextOid, tempFiles, chunkStorage, finalFiles, faults, limit, client>>

\* session.chunks.has(chunkIndex): answered from the ledger
ChunkDuplicate(uploadId, chunkIndex, totalChunks) ==
  /\ Ready
  /\ Live(uploadId)
  /\ ~(chunkIndex < 0 \/ chunkIndex >= totalChunks)
  /\ chunkIndex \in DOMAIN Sess(uploadId).chunks
  /\ LET session == Touch(Sess(uploadId), totalChunks)
     IN /\ Commit(uploadSessions,
                  [heap EXCEPT ![uploadSessions[uploadId]] = session], slots)
        /\ event' = Ev("chunk", uploadId, chunkIndex, totalChunks, 200,
                       Progress(session.uploadedChunks, session.totalChunks))
  /\ UNCHANGED <<now, env, nextOid, tempFiles, chunkStorage, finalFiles, faults, limit, client>>

\* a new chunk of a session that keeps its chunks in memory
ChunkToMemory(uploadId, chunkIndex, totalChunks, chunk) ==
  /\ Ready
  /\ Live(uploadId)
  /\ ~(chunkIndex < 0 \/ chunkIndex >= totalChunks)
  /\ chunkIndex \notin DOMAIN Sess(uploadId).chunks
  /\ Sess(uploadId).useCloudStorage
  /\ LET session == RecordChunk(Touch(Sess(uploadId), totalChunks), uploadId,
                                chunkIndex, chunk)
     IN /\ Commit(uploadSessions,
                  [heap EXCEPT ![uploadSessions[uploadId]] = session], slots)
        /\ event' = Ev("chunk", uploadId, chunkIndex, totalChunks, 200,
                       Progress(session.uploadedChunks, session.totalChunks))
  /\ chunkStorage' = saveChunkToMemory(chunkStorage, uploadId, chunkIndex, chunk)
  /\ UNCHANGED <<now, env, nextOid, tempFiles, finalFiles, faults, limit, client>>

\* a new chunk of a session that keeps its chunks in files: the handler
\* suspends in saveChunkLocally, holding the session object
ChunkBegin(uploadId, chunkIndex, totalChunks, chunk) ==
  /\ Ready
  /\ Live(uploadId)
  /\ ~(chunkIndex < 0 \/ chunkIndex >= totalChunks)
  /\ chunkIndex \notin DOMAIN Sess(uploadId).chunks
  /\ ~Sess(uploadId).useCloudStorage
  /\ HasFreeSlot
  /\ Commit(uploadSessions,
            [heap EXCEPT ![uploadSessions[uploadId]] = Touch(@, totalChunks)],
            [slots EXCEPT ![FreeSlot] =
               Slot("chunk", "save", uploadId, uploadSessions[uploadId],
                    chunkIndex, totalChunks, chunk)])
  /\ UNCHANGED <<now, env, nextOid, tempFiles, chunkStorage, finalFiles, faults, limit, client>>
  /\ event' = NoEvent

\* writeFile(chunkPath, ...) of saveChunkLocally succeeds
ChunkWrite(r) ==
  /\ Ready
  /\ slots[r].kind = "chunk" /\ slots[r].pc = "save"
  /\ tempFiles' = [tempFiles EXCEPT ![ChunkKey(slots[r].id, slots[r].idx)] = slots[r].body]
  /\ Commit(uploadSessions, heap, [slots EXCEPT ![r].pc = "saved"])
  /\ UNCHANGED <<now, env, nextOid, chunkStorage, finalFiles, faults, limit, client>>
  /\ event' = NoEvent

\* a failed write that is recorded in the ledger all the same; C24 does not
\* hold for it
ChunkWriteFailRecording(r) ==
  /\ Ready
  /\ slots[r].kind = "chunk" /\ slots[r].pc = "save"
  /\ faults < limit.faults
  /\ faults' = faults + 1
  /\ Commit(uploadSessions,
            [heap EXCEPT ![slots[r].oid] =
               RecordChunk(@, slots[r].id, slots[r].idx, slots[r].body)],
            [slots EXCEPT ![r] = Idle])
  /\ event' = Ev("chunk", slots[r].id, slots[r].idx, slots[r].total, 500, -1)
  /\ UNCHANGED <<now, env, nextOid, tempFiles, chunkStorage, finalFiles, limit, client>>

\* writeFile(chunkPath, ...) of saveChunkLocally fails
ChunkWriteFail(r) ==
  /\ Ready
  /\ slots[r].kind = "chunk" /\ slots[r].pc = "save"
  /\ faults < limit.faults
  /\ faults' = faults + 1
  /\ Commit(uploadSessions, heap, [slots EXCEPT ![r] = Idle])
  /\ event' = Ev("chunk", slots[r].id, slots[r].idx, slots[r].total, 500, -1)
  /\ UNCHANGED <<now, env, nextOid, tempFiles, chunkStorage, finalFiles, limit, client>>

\* the handler resumes after the write and records the chunk in the session
\* object it holds
ChunkRecord(r) ==
  /\ Ready
  /\ slots[r].kind = "chunk" /\ slots[r].pc = "saved"
  /\ LET session == RecordChunk(heap[slots[r].oid], slots[r].id, slots[r].idx,
                                slots[r].body)
     IN /\ Commit(uploadSessions, [heap EXCEPT ![slots[r].oid] = session],
                  [slots EXCEPT ![r] = Idle])
        /\ event' = Ev("chunk", slots[r].id, slots[r].idx, slots[r].total, 200,
                       Progress(session.uploadedChunks, session.totalChunks))
  /\ UNCHANGED <<now, env, nextOid, tempFiles, chunkStorage, finalFiles, faults, limit, client>>


(* ------------------- chunk handler, earlier version ------------------- *)
\* if (session.totalChunks === 0) session.totalChunks = totalChunks
TouchEarlier(session, totalChunks) ==
  IF session.totalChunks = 0 THEN [session EXCEPT !.totalChunks = totalChunks]
  ELSE session

\* session.chunks.set(chunkIndex, {...}); session.uploadedChunks++
RecordChunkEarlier(session, uploadId, chunkIndex, chunk) ==
  LET info == [filename |-> ChunkKey(uploadId, chunkIndex), size |-> Len(chunk),
               uploadedAt |-> now, isCloudStorage |-> FALSE]
      ledger == [j \in (DOMAIN session.chunks) \cup {chunkIndex} |->
                   IF j = chunkIndex THEN info ELSE session.chunks[j]]
  IN [session EXCEPT !.chunks = ledger, !.uploadedChunks = @ + 1]

\* chunkIndex < 0 || chunkIndex >= totalChunks
EarlierChunkOutOfRange(uploadId, chunkIndex, totalChunks) ==
  /\ Ready
  /\ Live(uploadId)
  /\ chunkIndex < 0 \/ chunkIndex >= totalChunks
  /\ Commit(uploadSessions,
            [heap EXCEPT ![uploadSessions[uploadId]] = TouchEarlier(@, totalChunks)],
            slots)
  /\ event' = Ev("chunk", uploadId, chunkIndex, totalChunks, 400, -1)
  /\ UNCHANGED <<now, env, nextOid, tempFiles, chunkStorage, finalFiles, faults, limit, client>>

\* session.chunks.has(chunkIndex): 'Chunk already uploaded'
EarlierChunkDuplicate(uploadId, chunkIndex, totalChunks) ==
  /\ Ready
  /\ Live(uploadId)
  /\ ~(chunkIndex < 0 \/ chunkIndex >= totalChunks)
  /\ chunkIndex \in DOMAIN Sess(uploadId).chunks
  /\ Commit(uploadSessions,
            [heap EXCEPT ![uploadSessions[uploadId]] = TouchEarlier(@, totalChunks)],
            slots)
  /\ event' = Ev("chunk", uploadId, chunkIndex, totalChunks, 200, -1)
  /\ UNCHANGED <<now, env, nextOid, tempFiles, chunkStorage, finalFiles, faults, limit, client>>

\* a new chunk: the handler suspends in chunk.arrayBuffer() and writeFile,
\* holding the session object
EarlierChunkBegin(uploadId, chunkIndex, totalChunks, chunk) ==
  /\ Ready
  /\ Live(uploadId)
  /\ ~(chunkIndex < 0 \/ chunkIndex >= totalChunks)
  /\ chunkIndex \notin DOMAIN Sess(uploadId).chunks
  /\ HasFreeSlot
  /\ Commit(uploadSessions,
            [heap EXCEPT ![uploadSessions[uploadId]] = TouchEarlier(@, totalChunks)],
            [slots EXCEPT ![FreeSlot] =
               Slot("chunk", "save", uploadId, uploadSessions[uploadId],
                    chunkIndex, totalChunks, chunk)])
  /\ UNCHANGED <<now, env, nextOid, tempFiles, chunkStorage, finalFiles, faults, limit, client>>
  /\ event' = NoEvent

\* writeFile(chunkPath, ...) succeeds
EarlierChunkWrite(r) ==
  /\ Ready
  /\ slots[r].kind = "chunk" /\ slots[r].pc = "save"
  /\ tempFiles' = [tempFiles EXCEPT ![ChunkKey(slots[r].id, slots[r].idx)] = slots[r].body]
  /\ Commit(uploadSessions, heap, [slots EXCEPT ![r].pc = "saved"])
  /\ UNCHANGED <<now, env, nextOid, chunkStorage, finalFiles, faults, limit, client>>
  /\ event' = NoEvent

\* the handler resumes after the write, records the chunk and counts it
EarlierChunkRecord(r) ==
  /\ Ready
  /\ slots[r].kind = "chunk" /\ slots[r].pc = "saved"
  /\ Commit(uploadSessions,
            [heap EXCEPT ![slots[r].oid] =
               RecordChunkEarlier(@, slots[r].id, slots[r].idx, slots[r].body)],
            [slots EXCEPT ![r] = Idle])
  /\ event' = Ev("chunk", slots[r].id, slots[r].idx, slots[r].total, 200, -1)
  /\ UNCHANGED <<now, env, nextOid, tempFiles, chunkStorage, finalFiles, faults, limit, client>>


(* --------------------------- abort handler ---------------------------- *)
\* cleanupMemoryChunks: the chunk map without the session's in-memory chunks
cleanupMemoryChunks(store, session) ==
  [k \in Keys |->
     IF \E j \in DOMAIN session.chunks :
          session.chunks[j].isCloudStorage /\ session.chunks[j].filename = k
     THEN NoEntry ELSE store[k]]

\* a request without uploadId
AbortBadRequest ==
  /\ Ready
  /\ event' = Ev("abort", NoId, -1, -1, 400, -1)
  /\ UNCHANGED <<now, env, uploadSessions, heap, nextOid, tempFiles,
                 chunkStorage, finalFiles, slots, faults, limit, client>>

\* an abort handler that refuses an upload id without a session; C6 does not
\* hold for it
AbortNotFoundRefused(uploadId) ==
  /\ Ready
  /\ ~Live(uploadId)
  /\ event' = Ev("abort", uploadId, -1, -1, 404, -1)
  /\ UNCHANGED <<now, env, uploadSessions, heap, nextOid, tempFiles,
                 chunkStorage, finalFiles, slots, faults, limit, client>>

\* no session under uploadId: nothing to clean up
AbortNotFound(uploadId) ==
  /\ Ready
  /\ ~Live(uploadId)
  /\ event' = Ev("abort", uploadId, -1, -1, 200, -1)
  /\ UNCHANGED <<now, env, uploadSessions, heap, nextOid, tempFiles,
                 chunkStorage, finalFiles, slots, faults, limit, client>>

\* a session that keeps its chunks in memory: cleaned up and removed at once
AbortMemory(uploadId) ==
  /\ Ready
  /\ Live(uploadId)
  /\ Sess(uploadId).useCloudStorage
  /\ chunkStorage' = cleanupMemoryChunks(chunkStorage, Sess(uploadId))
  /\ Commit([uploadSessions EXCEPT ![uploadId] = 0], heap, slots)
  /\ event' = Ev("abort", uploadId, -1, -1, 200, -1)
  /\ UNCHANGED <<now, env, nextOid, tempFiles, finalFiles, faults, limit, client>>

\* a session that keeps its chunks in files: the handler suspends in
\* cleanupLocalFiles, holding the session object
AbortBegin(uploadId) ==
  /\ Ready
  /\ Live(uploadId)
  /\ ~Sess(uploadId).useCloudStorage
  /\ HasFreeSlot
  /\ Commit(uploadSessions, heap,
            [slots EXCEPT ![FreeSlot] =
               Slot("abort", "cleanup", uploadId, uploadSessions[uploadId], -1, -1,
                    Absent)])
  /\ UNCHANGED <<now, env, nextOid, tempFiles, chunkStorage, finalFiles, faults, limit, client>>
  /\ event' = NoEvent

\* the ledger entries the loop of cleanupLocalFiles has still to visit
Unvisited(r) == (DOMAIN heap[slots[r].oid].chunks) \ slots[r].visited

\* one iteration of cleanupLocalFiles: unlink the file of ledger entry j (an
\* unlink of a file that is not there throws and is logged)
AbortUnlink(r, j) ==
  /\ Ready
  /\ slots[r].kind = "abort"
  /\ j \in Unvisited(r)
  /\ tempFiles' = IF heap[slots[r].oid].chunks[j].isCloudStorage THEN tempFiles
                  ELSE [tempFiles EXCEPT ![heap[slots[r].oid].chunks[j].filename] = Absent]
  /\ Commit(uploadSessions, heap, [slots EXCEPT ![r].visited = @ \cup {j}])
  /\ UNCHANGED <<now, env, nextOid, chunkStorage, finalFiles, faults, limit, client>>
  /\ event' = NoEvent

\* one iteration of cleanupLocalFiles whose unlink fails: logged, the file stays
AbortUnlinkFail(r, j) ==
  /\ Ready
  /\ slots[r].kind = "abort"
  /\ j \in Unvisited(r)
  /\ faults < limit.faults
  /\ faults' = faults + 1
  /\ Commit(uploadSessions, heap, [slots EXCEPT ![r].visited = @ \cup {j}])
  /\ UNCHANGED <<now, env, nextOid, tempFiles, chunkStorage, finalFiles, limit, client>>
  /\ event' = NoEvent

\* the loop is over: globalThis.uploadSessions.delete(uploadId)
AbortFinish(r) ==
  /\ Ready
  /\ slots[r].kind = "abort"
  /\ Unvisited(r) = {}
  /\ Commit([uploadSessions EXCEPT ![slots[r].id] = 0], heap,
            [slots EXCEPT ![r] = Idle])
  /\ event' = Ev("abort", slots[r].id, -1, -1, 200, -1)
  /\ UNCHANGED <<now, env, nextOid, tempFiles, chunkStorage, finalFiles, faults, limit, client>>


(* -------------------------- complete handler -------------------------- *)
webCompatibleFormats == {"video/mp4", "video/webm", "video/ogg"}

\* the response of a successful completion carries needsConversion
EvDone(uploadId, session) ==
  [Ev("complete", uploadId, -1, -1, 200, -1) EXCEPT
     !.progress = IF session.contentType \in webCompatibleFormats THEN 0 ELSE 1]

Disk(name) == <<"disk", name>>
Blob(name) == <<"blob", name>>

\* writeFile / put: the artifact stored under a name, replacing what was there
Store(files, name, content) ==
  [n \in (DOMAIN files) \cup {name} |-> IF n = name THEN content ELSE files[n]]

\* the clean-up loops over i < session.totalChunks
Assembled(session) == {j \in DOMAIN session.chunks : j < session.totalChunks}

\* chunk map without the assembled chunks of the session
DropMemoryChunks(store, session) ==
  [k \in Keys |->
     IF \E j \in Assembled(session) : session.chunks[j].filename = k THEN NoEntry
     ELSE store[k]]

\* a request without uploadId
CompleteBadRequest ==
  /\ Ready
  /\ event' = Ev("complete", NoId, -1, -1, 400, -1)
  /\ UNCHANGED <<now, env, uploadSessions, heap, nextOid, tempFiles,
                 chunkStorage, finalFiles, slots, faults, limit, client>>

\* no session under uploadId
CompleteNotFound(uploadId) ==
  /\ Ready
  /\ ~Live(uploadId)
  /\ event' = Ev("complete", uploadId, -1, -1, 404, -1)
  /\ UNCHANGED <<now, env, uploadSessions, heap, nextOid, tempFiles,
                 chunkStorage, finalFiles, slots, faults, limit, client>>

\* session.uploadedChunks !== session.totalChunks
CompleteIncomplete(uploadId) ==
  /\ Ready
  /\ Live(uploadId)
  /\ Sess(uploadId).uploadedChunks # Sess(uploadId).totalChunks
  /\ event' = Ev("complete", uploadId, -1, -1, 400, -1)
  /\ UNCHANGED <<now, env, uploadSessions, heap, nextOid, tempFiles,
                 chunkStorage, finalFiles, slots, faults, limit, client>>

\* uploadedChunks equals totalChunks: the handler suspends in the assembly, holding the
\* session object
CompleteBegin(uploadId) ==
  /\ Ready
  /\ Live(uploadId)
  /\ Sess(uploadId).uploadedChunks = Sess(uploadId).totalChunks
  /\ HasFreeSlot
  /\ Commit(uploadSessions, heap,
            [slots EXCEPT ![FreeSlot] =
               Slot("complete", "read", uploadId, uploadSessions[uploadId], -1, -1,
                    Absent)])
  /\ UNCHANGED <<now, env, nextOid, tempFiles, chunkStorage, finalFiles, faults, limit, client>>
  /\ event' = NoEvent

\* a catch block that removes the session of the failed assembly; C8 does not
\* hold for it
CompleteThrowDropping(r) ==
  /\ Commit([uploadSessions EXCEPT ![slots[r].id] = 0], heap,
            [slots EXCEPT ![r] = Idle])
  /\ event' = Ev("complete", slots[r].id, -1, -1, 500, -1)
  /\ UNCHANGED <<now, env, nextOid, tempFiles, chunkStorage, finalFiles, limit, client>>

\* the assembly throws: the catch block answers 500, the session stays
CompleteThrow(r) ==
  /\ Commit(uploadSessions, heap, [slots EXCEPT ![r] = Idle])
  /\ event' = Ev("complete", slots[r].id, -1, -1, 500, -1)
  /\ UNCHANGED <<now, env, nextOid, tempFiles, chunkStorage, finalFiles, limit, client>>

\* the stored bytes of chunk i of the session, Absent when they cannot be had
ChunkData(session, i) ==
  IF i \notin DOMAIN session.chunks THEN Absent
  ELSE IF session.useCloudStorage THEN chunkStorage[session.chunks[i].filename].data
       ELSE tempFiles[session.chunks[i].filename]

\* a collecting loop that puts each chunk before the chunks already read; C5
\* does not hold for it
CompleteReadPrepending(r) ==
  /\ Ready
  /\ slots[r].kind = "complete" /\ slots[r].pc = "read"
  /\ slots[r].i < heap[slots[r].oid].totalChunks
  /\ ChunkData(heap[slots[r].oid], slots[r].i) # Absent
  /\ Commit(uploadSessions, heap,
            [slots EXCEPT ![r].buf = ChunkData(heap[slots[r].oid], slots[r].i) \o @,
                          ![r].i = @ + 1])
  /\ UNCHANGED <<now, env, nextOid, tempFiles, chunkStorage, finalFiles, faults, limit, client>>
  /\ event' = NoEvent

\* one iteration of the collecting loop: chunk i is read and appended
CompleteRead(r) ==
  /\ Ready
  /\ slots[r].kind = "complete" /\ slots[r].pc = "read"
  /\ slots[r].i < heap[slots[r].oid].totalChunks
  /\ ChunkData(heap[slots[r].oid], slots[r].i) # Absent
  /\ Commit(uploadSessions, heap,
            [slots EXCEPT ![r].buf = @ \o ChunkData(heap[slots[r].oid], slots[r].i),
                          ![r].i = @ + 1])
  /\ UNCHANGED <<now, env, nextOid, tempFiles, chunkStorage, finalFiles, faults, limit, client>>
  /\ event' = NoEvent

\* one iteration of the collecting loop: the ledger has no chunk i, or its
\* bytes are not in the store
CompleteMissing(r) ==
  /\ Ready
  /\ slots[r].kind = "complete" /\ slots[r].pc = "read"
  /\ slots[r].i < heap[slots[r].oid].totalChunks
  /\ ChunkData(heap[slots[r].oid], slots[r].i) = Absent
  /\ CompleteThrow(r)
  /\ UNCHANGED <<faults, limit, client>>

\* one iteration of the collecting loop: the read fails
CompleteReadFail(r) ==
  /\ Ready
  /\ slots[r].kind = "complete" /\ slots[r].pc = "read"
  /\ slots[r].i < heap[slots[r].oid].totalChunks
  /\ ChunkData(heap[slots[r].oid], slots[r].i) # Absent
  /\ faults < limit.faults
  /\ faults' = faults + 1
  /\ CompleteThrow(r)

\* a completion that keeps the session in the table; C9 does not hold for it
FinishKeeping(r, table) == table

\* after a successful write: the session is removed and the request answered
Finish(r, table) == [table EXCEPT ![slots[r].id] = 0]

\* local assembly: writeFile(finalPath, Buffer.concat(chunks)) succeeds
CompleteWrite(r) ==
  /\ Ready
  /\ slots[r].kind = "complete" /\ slots[r].pc = "read"
  /\ slots[r].i >= heap[slots[r].oid].totalChunks
  /\ ~heap[slots[r].oid].useCloudStorage
  /\ finalFiles' = Store(finalFiles, Disk(heap[slots[r].oid].finalFilename), slots[r].buf)
  /\ Commit(uploadSessions, heap, [slots EXCEPT ![r].pc = "unlink", ![r].i = 0])
  /\ UNCHANGED <<now, env, nextOid, tempFiles, chunkStorage, faults, limit, client>>
  /\ event' = NoEvent

\* a failed write whose catch block removes the temporary chunks; C23 does
\* not hold for it
CompleteWriteFailCleaning(r) ==
  /\ Ready
  /\ slots[r].kind = "complete" /\ slots[r].pc = "read"
  /\ slots[r].i >= heap[slots[r].oid].totalChunks
  /\ ~heap[slots[r].oid].useCloudStorage
  /\ faults < limit.faults
  /\ faults' = faults + 1
  /\ tempFiles' = [k \in Keys |->
                     IF \E j \in DOMAIN heap[slots[r].oid].chunks :
                          heap[slots[r].oid].chunks[j].filename = k
                     THEN Absent ELSE tempFiles[k]]
  /\ Commit(uploadSessions, heap, [slots EXCEPT ![r] = Idle])
  /\ event' = Ev("complete", slots[r].id, -1, -1, 500, -1)
  /\ UNCHANGED <<now, env, nextOid, chunkStorage, finalFiles, limit, client>>

\* local assembly: writeFile(finalPath, ...) fails
CompleteWriteFail(r) ==
  /\ Ready
  /\ slots[r].kind = "complete" /\ slots[r].pc = "read"
  /\ slots[r].i >= heap[slots[r].oid].totalChunks
  /\ ~heap[slots[r].oid].useCloudStorage
  /\ faults < limit.faults
  /\ faults' = faults + 1
  /\ CompleteThrow(r)

\* local assembly: one iteration of the clean-up loop (a failed unlink is logged)
CompleteUnlink(r, deleted) ==
  /\ Ready
  /\ slots[r].kind = "complete" /\ slots[r].pc = "unlink"
  /\ slots[r].i < heap[slots[r].oid].totalChunks
  /\ IF slots[r].i \in DOMAIN heap[slots[r].oid].chunks /\ deleted
     THEN tempFiles' = [tempFiles EXCEPT
                          ![heap[slots[r].oid].chunks[slots[r].i].filename] = Absent]
     ELSE tempFiles' = tempFiles
  /\ IF deleted THEN faults' = faults
     ELSE /\ slots[r].i \in DOMAIN heap[slots[r].oid].chunks
          /\ faults < limit.faults
          /\ faults' = faults + 1
  /\ Commit(uploadSessions, heap, [slots EXCEPT ![r].i = @ + 1])
  /\ UNCHANGED <<now, env, nextOid, chunkStorage, finalFiles, limit, client>>
  /\ event' = NoEvent

\* local assembly returned: globalThis.uploadSessions.delete(uploadId)
CompleteFinish(r) ==
  /\ Ready
  /\ slots[r].kind = "complete" /\ slots[r].pc = "unlink"
  /\ slots[r].i >= heap[slots[r].oid].totalChunks
  /\ Commit(Finish(r, uploadSessions), heap, [slots EXCEPT ![r] = Idle])
  /\ event' = EvDone(slots[r].id, heap[slots[r].oid])
  /\ UNCHANGED <<now, env, nextOid, tempFiles, chunkStorage, finalFiles, faults, limit, client>>

\* cloud assembly: nothing was collected, or the deployment is not Vercel and
\* the call of this.fallbackToLocalAssembly throws a TypeError
CompleteCloudThrow(r) ==
  /\ Ready
  /\ slots[r].kind = "complete" /\ slots[r].pc = "read"
  /\ slots[r].i >= heap[slots[r].oid].totalChunks
  /\ heap[slots[r].oid].useCloudStorage
  /\ Len(slots[r].buf) = 0 \/ env # "cloudVercel"
  /\ CompleteThrow(r)
  /\ UNCHANGED <<faults, limit, client>>

\* cloud assembly: put(...) succeeds, the memory chunks are dropped, the
\* session removed
CompletePut(r) ==
  /\ Ready
  /\ slots[r].kind = "complete" /\ slots[r].pc = "read"
  /\ slots[r].i >= heap[slots[r].oid].totalChunks
  /\ heap[slots[r].oid].useCloudStorage
  /\ Len(slots[r].buf) # 0 /\ env = "cloudVercel"
  /\ finalFiles' = Store(finalFiles, Blob(heap[slots[r].oid].finalFilename), slots[r].buf)
  /\ chunkStorage' = DropMemoryChunks(chunkStorage, heap[slots[r].oid])
  /\ Commit(Finish(r, uploadSessions), heap, [slots EXCEPT ![r] = Idle])
  /\ event' = EvDone(slots[r].id, heap[slots[r].oid])
  /\ UNCHANGED <<now, env, nextOid, tempFiles, faults, limit, client>>

\* cloud assembly: the import of @vercel/blob or put(...) fails, the handler
\* goes on in fallbackToLocalAssembly
CompletePutFail(r) ==
  /\ Ready
  /\ slots[r].kind = "complete" /\ slots[r].pc = "read"
  /\ slots[r].i >= heap[slots[r].oid].totalChunks
  /\ heap[slots[r].oid].useCloudStorage
  /\ Len(slots[r].buf) # 0 /\ env = "cloudVercel"
  /\ faults < limit.faults
  /\ faults' = faults + 1
  /\ Commit(uploadSessions, heap, [slots EXCEPT ![r].pc = "fallback"])
  /\ UNCHANGED <<now, env, nextOid, tempFiles, chunkStorage, finalFiles, limit, client>>
  /\ event' = NoEvent

\* fallbackToLocalAssembly: the local write succeeds
CompleteFallback(r) ==
  /\ Ready
  /\ slots[r].kind = "complete" /\ slots[r].pc = "fallback"
  /\ finalFiles' = Store(finalFiles, Disk(heap[slots[r].oid].finalFilename), slots[r].buf)
  /\ chunkStorage' = DropMemoryChunks(chunkStorage, heap[slots[r].oid])
  /\ Commit(Finish(r, uploadSessions), heap, [slots EXCEPT ![r] = Idle])
  /\ event' = EvDone(slots[r].id, heap[slots[r].oid])
  /\ UNCHANGED <<now, env, nextOid, tempFiles, faults, limit, client>>

\* fallbackToLocalAssembly: mkdir or the local write fails
CompleteFallbackFail(r) ==
  /\ Ready
  /\ slots[r].kind = "complete" /\ slots[r].pc = "fallback"
  /\ faults < limit.faults + 1
  /\ faults' = faults + 1
  /\ CompleteThrow(r)

(* --------------------------- specification ---------------------------- *)
\* the response of the last step goes out (return new Response(...)) before
\* the next step is taken
Deliver ==
  /\ event # NoEvent
  /\ event' = NoEvent
  /\ UNCHANGED <<now, env, uploadSessions, heap, nextOid, tempFiles,
                 chunkStorage, finalFiles, slots, faults, limit, client>>

\* the steps that need no storage fault
Requests ==
  \/ \E in \in InitInputs :
       InitInvalid(in) \/ \E uploadId \in IDS : InitOk(in, uploadId)
  \/ ChunkBadRequest
  \/ \E uploadId \in IDS, chunkIndex \in ReqIndices, totalChunks \in Totals :
       \/ ChunkNotFound(uploadId, chunkIndex, totalChunks)
       \/ ChunkOutOfRange(uploadId, chunkIndex, totalChunks)
       \/ ChunkDuplicate(uploadId, chunkIndex, totalChunks)
       \/ \E chunk \in Bodies :
            \/ ChunkToMemory(uploadId, chunkIndex, totalChunks, chunk)
            \/ ChunkBegin(uploadId, chunkIndex, totalChunks, chunk)
  \/ CompleteBadRequest
  \/ AbortBadRequest
  \/ \E uploadId \in IDS :
       \/ CompleteNotFound(uploadId)
       \/ CompleteIncomplete(uploadId)
       \/ CompleteBegin(uploadId)
       \/ AbortNotFound(uploadId)
       \/ AbortMemory(uploadId)
       \/ AbortBegin(uploadId)

Resumes ==
  \E r \in RIDS :
    \/ ChunkWrite(r) \/ ChunkRecord(r)
    \/ AbortFinish(r)
    \/ \E j \in Indices : AbortUnlink(r, j)
    \/ CompleteRead(r) \/ CompleteMissing(r)
    \/ CompleteWrite(r)
    \/ CompleteUnlink(r, TRUE)
    \/ CompleteFinish(r)
    \/ CompleteCloudThrow(r)
    \/ CompletePut(r)

\* the steps in which the storage fails
Faults ==
  \/ \E in \in InitInputs : InitDirFail(in)
  \/ \E r \in RIDS :
       \/ ChunkWriteFail(r)
       \/ \E j \in Indices : AbortUnlinkFail(r, j)
       \/ CompleteReadFail(r)
       \/ CompleteWriteFail(r)
       \/ CompleteUnlink(r, FALSE)
       \/ CompletePutFail(r)
       \/ CompleteFallback(r)
       \/ CompleteFallbackFail(r)

\* the requests of the uploading client: init with the file's size, its
\* slices in any order and any number of times, complete, abort
UploadInput == InitInput(<<"a", ".", "m", "p", "4">>, Len(client.file), "video/mp4", <<"t">>)

ClientRequests ==
  \/ \E uploadId \in IDS : InitOk(UploadInput, uploadId)
  \/ \E uploadId \in IDS, chunkIndex \in Indices :
       \/ ChunkNotFound(uploadId, chunkIndex,
                        ClientTotal(client.file, client.chunkSize))
       \/ ChunkDuplicate(uploadId, chunkIndex,
                         ClientTotal(client.file, client.chunkSize))
       \/ ChunkToMemory(uploadId, chunkIndex,
                        ClientTotal(client.file, client.chunkSize),
                        Slice(client.file, chunkIndex, client.chunkSize))
       \/ ChunkBegin(uploadId, chunkIndex,
                     ClientTotal(client.file, client.chunkSize),
                     Slice(client.file, chunkIndex, client.chunkSize))
  \/ \E uploadId \in IDS :
       \/ CompleteNotFound(uploadId)
       \/ CompleteIncomplete(uploadId)
       \/ CompleteBegin(uploadId)
       \/ AbortNotFound(uploadId)
       \/ AbortMemory(uploadId)
       \/ AbortBegin(uploadId)

(* ---------------------- client: ChunkedUploader ----------------------- *)
\* a request of the uploader: where its retry loop stands ("idle" before an
\* attempt, "sent" while fetch is pending, "ok", "failed") and the number of
\* attempts made
Req(st, attempts) == [st |-> st, attempts |-> attempts]
ReqKey(kind, idx) == <<kind, idx>>
INIT == ReqKey("init", -1)
COMPLETE == ReqKey("complete", -1)
ABORT == ReqKey("abort", -1)
ChunkKeys(total) == {ReqKey("chunk", i) : i \in 0..(total - 1)}
ReqKeys(total) == {INIT, COMPLETE, ABORT} \cup ChunkKeys(total)

\* new ChunkedUploader({file, metadata}) followed by upload() on the chunked
\* path: pc is the position in chunkedUpload ("init", "chunks", "complete",
\* "abort" while the abort request is out, "done" once upload() has returned)
Uploader(file, title) ==
  [file |-> file,
   chunkSize |-> calculateOptimalChunkSize(Len(file), 0),
   title |-> title,
   pc |-> "init",
   aborted |-> FALSE,
   abortedAt |-> "never",
   uploadId |-> NoId,
   req |-> [k \in ReqKeys(ClientTotal(file, calculateOptimalChunkSize(Len(file), 0)))
              |-> Req("idle", 0)],
   chunkIndex |-> 0,
   bytesUploaded |-> 0,
   progress |-> -1,
   drops |-> 0,
   onError |-> FALSE,
   success |-> FALSE]

\* the uploader's files: from two chunks (parallel mode) to MaxClientChunks
\* chunks (sequential mode), the last chunk shorter than the others; with a
\* title in the metadata and without
Uploaders ==
  {Uploader(File(2 * k - 1), title) :
     k \in 2..MaxClientChunks, title \in {<<"t">>, <<>>}}

\* one upload() of a ChunkedUploader
InitClient ==
  \E u \in Uploaders : Start(Envs, Limit(MaxInits, MaxSlots, MaxFaults, 0), u)

TotalOf(cl) == ClientTotal(cl.file, cl.chunkSize)
\* totalChunks <= 4
Parallel(cl) == TotalOf(cl) <= PARALLEL_CHUNKS

\* Math.round((this.bytesUploaded / this.file.size) * 100)
Percent(bytes, size) == (200 * bytes + size) \div (2 * size)

\* the body of the init request
ClientInput ==
  InitInput(<<"a", ".", "m", "p", "4">>, Len(client.file), "video/mp4", client.title)

\* the catch block of a retry loop is left towards the next attempt while
\* attempt < MAX_RETRIES - 1 held, and towards the final throw otherwise
CaughtOnceMore(req) ==
  Req(IF req.attempts < MAX_RETRIES + 1 THEN "idle" ELSE "failed", req.attempts)

Caught(req) ==
  Req(IF req.attempts < MAX_RETRIES THEN "idle" ELSE "failed", req.attempts)

\* an exception reaches the catch block of upload(): onError, and
\* {success: false} is returned unless upload() has returned already
Thrown(cl) ==
  IF cl.pc = "done" THEN cl
  ELSE [cl EXCEPT !.pc = "done", !.onError = TRUE, !.success = FALSE]

\* a catch block that swallows the final error of a request: nothing reaches
\* upload(); C30 does not hold for it
AttemptFailedSilently(cl, k) ==
  [cl EXCEPT !.req[k] = Caught(@)]

\* an attempt of request k failed
AttemptFailed(cl, k) ==
  LET c == [cl EXCEPT !.req[k] = Caught(@)]
  IN IF c.req[k].st = "failed" THEN Thrown(c) ELSE c

\* a retry loop finds this.aborted set
Cancelled(cl, k) == Thrown([cl EXCEPT !.req[k].st = "failed"])

\* fetch is called for request k
Attempted(cl, k) ==
  [cl EXCEPT !.req[k] = Req("sent", @.attempts + 1)]

\* a callback that counts the nominal chunk size for every chunk
ChunkDoneBySize(cl, i) ==
  LET bytes == cl.bytesUploaded + cl.chunkSize
      c == [cl EXCEPT !.req[ReqKey("chunk", i)].st = "ok",
                      !.bytesUploaded = bytes,
                      !.progress = Percent(bytes, Len(cl.file)),
                      !.chunkIndex = IF Parallel(cl) THEN @ ELSE @ + 1]
  IN IF c.pc = "chunks" /\ \A k \in ChunkKeys(TotalOf(c)) : c.req[k].st = "ok"
     THEN [c EXCEPT !.pc = "complete"]
     ELSE c

\* uploadChunkWithRetry returned for chunk i: bytesUploaded and the progress
\* callback; after the last chunk chunkedUpload goes on to the completion
ChunkDone(cl, i) ==
  LET bytes == cl.bytesUploaded + Len(Slice(cl.file, i, cl.chunkSize))
      c == [cl EXCEPT !.req[ReqKey("chunk", i)].st = "ok",
                      !.bytesUploaded = bytes,
                      !.progress = Percent(bytes, Len(cl.file)),
                      !.chunkIndex = IF Parallel(cl) THEN @ ELSE @ + 1]
  IN IF c.pc = "chunks" /\ \A k \in ChunkKeys(TotalOf(c)) : c.req[k].st = "ok"
     THEN [c EXCEPT !.pc = "complete"]
     ELSE c

ServerUnchanged ==
  UNCHANGED <<now, env, uploadSessions, heap, nextOid, tempFiles, chunkStorage,
              finalFiles, slots, faults, limit>>

\* abort()
UploaderAbort ==
  /\ Ready
  /\ client.pc # "done"
  /\ ~client.aborted
  /\ client' = [client EXCEPT !.aborted = TRUE, !.abortedAt = client.pc]
  /\ event' = event
  /\ ServerUnchanged

\* fetchWithRetry, one turn of the loop for the init or the complete call
FetchAttempt(k) ==
  /\ Ready
  /\ k = IF client.pc = "init" THEN INIT ELSE COMPLETE
  /\ client.pc \in {"init", "complete"}
  /\ client.req[k].st = "idle"
  /\ client' = IF client.aborted THEN Cancelled(client, k) ELSE Attempted(client, k)
  /\ event' = event
  /\ ServerUnchanged

\* uploadChunksParallel: the first attempts of all chunks start in one
\* synchronous loop
StartParallel ==
  /\ Ready
  /\ client.pc = "chunks" /\ Parallel(client)
  /\ \A k \in ChunkKeys(TotalOf(client)) : client.req[k] = Req("idle", 0)
  /\ client' =
       LET all(req) == [k \in DOMAIN client.req |->
                          IF k \in ChunkKeys(TotalOf(client)) THEN req
                          ELSE client.req[k]]
       IN IF client.aborted
          THEN Thrown([client EXCEPT !.req = all(Req("failed", 0))])
          ELSE [client EXCEPT !.req = all(Req("sent", 1))]
  /\ event' = event
  /\ ServerUnchanged

\* uploadChunksSequential, one turn of the loop: the abort notification if
\* this.aborted is set, the first attempt of the chunk otherwise
StartSequential ==
  /\ Ready
  /\ client.pc = "chunks" /\ ~Parallel(client)
  /\ client.req[ReqKey("chunk", client.chunkIndex)] = Req("idle", 0)
  /\ client' = IF client.aborted
               THEN [Attempted(client, ABORT) EXCEPT !.pc = "abort"]
               ELSE Attempted(client, ReqKey("chunk", client.chunkIndex))
  /\ event' = event
  /\ ServerUnchanged

\* a retry that does not look at this.aborted; C16 does not hold for it
ChunkRetryHeedless(i) ==
  /\ Ready
  /\ ReqKey("chunk", i) \in DOMAIN client.req
  /\ client.req[ReqKey("chunk", i)].st = "idle"
  /\ client.req[ReqKey("chunk", i)].attempts > 0
  /\ client' = Attempted(client, ReqKey("chunk", i))
  /\ event' = event
  /\ ServerUnchanged

\* uploadChunkWithRetry, a turn of the loop after a failed attempt
ChunkRetry(i) ==
  /\ Ready
  /\ ReqKey("chunk", i) \in DOMAIN client.req
  /\ client.req[ReqKey("chunk", i)].st = "idle"
  /\ client.req[ReqKey("chunk", i)].attempts > 0
  /\ client' = IF client.aborted THEN Cancelled(client, ReqKey("chunk", i))
               ELSE Attempted(client, ReqKey("chunk", i))
  /\ event' = event
  /\ ServerUnchanged

\* the request of a pending fetch has reached a handler that has not
\* answered yet
Arrived(k) ==
  \E r \in RIDS : slots[r].kind = k[1] /\ slots[r].idx = k[2]

\* fetch rejects: the request does not reach the server
NetworkError(k) ==
  /\ Ready
  /\ k \in DOMAIN client.req
  /\ client.req[k].st = "sent" /\ ~Arrived(k)
  /\ client.drops < MaxDrops
  /\ client' =
       IF k = ABORT
       THEN Thrown([client EXCEPT !.req[k].st = "failed", !.drops = @ + 1])
       ELSE AttemptFailed([client EXCEPT !.drops = @ + 1], k)
  /\ event' = event
  /\ ServerUnchanged

\* the server takes up a request of the uploader
ServeInit ==
  /\ client.req[INIT].st = "sent"
  /\ \/ InitInvalid(ClientInput)
     \/ \E uploadId \in IDS : InitOk(ClientInput, uploadId)

ServeChunk(i) ==
  /\ ReqKey("chunk", i) \in DOMAIN client.req
  /\ client.req[ReqKey("chunk", i)].st = "sent"
  /\ ~Arrived(ReqKey("chunk", i))
  /\ \/ ChunkToMemory(client.uploadId, i, TotalOf(client),
                      Slice(client.file, i, client.chunkSize))
     \/ ChunkBegin(client.uploadId, i, TotalOf(client),
                   Slice(client.file, i, client.chunkSize))

ServeComplete ==
  /\ client.req[COMPLETE].st = "sent"
  /\ ~Arrived(COMPLETE)
  /\ CompleteBegin(client.uploadId)

ServeAbort ==
  /\ client.req[ABORT].st = "sent"
  /\ ~Arrived(ABORT)
  /\ AbortMemory(client.uploadId) \/ AbortBegin(client.uploadId)

\* the handlers' steps after their first await
ServeOn ==
  \E r \in RIDS :
    \/ ChunkWrite(r) \/ ChunkWriteFail(r) \/ ChunkRecord(r)
    \/ AbortFinish(r)
    \/ \E j \in Indices : AbortUnlink(r, j)
    \/ CompleteRead(r)
    \/ CompleteWrite(r)
    \/ CompleteUnlink(r, TRUE)
    \/ CompleteFinish(r)
    \/ CompleteCloudThrow(r)
    \/ CompletePut(r)

\* a response reaches the uploader: response.ok and result.success decide
\* between the next step of chunkedUpload and the catch block
Receive ==
  /\ event # NoEvent
  /\ client' =
       CASE event.op = "init" ->
              IF event.status = 200
              THEN [client EXCEPT !.req[INIT].st = "ok", !.pc = "chunks",
                                  !.uploadId = event.id]
              ELSE AttemptFailed(client, INIT)
         [] event.op = "chunk" ->
              IF event.status = 200 THEN ChunkDone(client, event.idx)
              ELSE AttemptFailed(client, ReqKey("chunk", event.idx))
         [] event.op = "complete" ->
              IF event.status = 200
              THEN [client EXCEPT !.req[COMPLETE].st = "ok", !.pc = "done",
                                  !.success = TRUE]
              ELSE AttemptFailed(client, COMPLETE)
         [] event.op = "abort" ->
              Thrown([client EXCEPT !.req[ABORT].st = "ok"])
  /\ event' = NoEvent
  /\ ServerUnchanged

\* the response of a chunk or complete request is lost on its way: the
\* handler has run, fetch rejects
ResponseLost ==
  /\ event # NoEvent
  /\ event.op \in {"chunk", "complete"}
  /\ client.drops < MaxDrops
  /\ client' = AttemptFailed([client EXCEPT !.drops = @ + 1],
                             IF event.op = "chunk" THEN ReqKey("chunk", event.idx)
                             ELSE COMPLETE)
  /\ event' = NoEvent
  /\ ServerUnchanged

\* the server takes up a request whose earlier attempt it has answered
ServeAgain ==
  \/ \E i \in Indices :
       /\ ReqKey("chunk", i) \in DOMAIN client.req
       /\ client.req[ReqKey("chunk", i)].st = "sent"
       /\ ~Arrived(ReqKey("chunk", i))
       /\ ChunkDuplicate(client.uploadId, i, TotalOf(client))
  \/ /\ client.req[COMPLETE].st = "sent"
     /\ ~Arrived(COMPLETE)
     /\ CompleteNotFound(client.uploadId)

NextClient ==
  \/ UploaderAbort
  \/ \E k \in {INIT, COMPLETE} : FetchAttempt(k)
  \/ StartParallel
  \/ StartSequential
  \/ \E i \in Indices : ChunkRetry(i)
  \/ \E k \in ReqKeys(MaxClientChunks) : NetworkError(k)
  \/ ServeInit
  \/ \E i \in Indices : ServeChunk(i)
  \/ ServeComplete
  \/ ServeAbort
  \/ ServeOn
  \/ Receive

\* the steps of the uploader and of the server that are taken whenever they
\* can be: every pending fetch resolves or rejects, every timer fires
Pending ==
  \/ \E k \in {INIT, COMPLETE} : FetchAttempt(k)
  \/ StartParallel
  \/ StartSequential
  \/ \E i \in Indices : ChunkRetry(i)
  \/ ServeInit
  \/ \E i \in Indices : ServeChunk(i)
  \/ ServeComplete
  \/ ServeAbort
  \/ ServeAgain
  \/ ServeOn
  \/ Receive

NextTransport == NextClient \/ ResponseLost \/ ServeAgain

\* one upload() of a short and of a long file
InitTransport ==
  \E u \in {v \in Uploaders : TotalOf(v) \in {2, MaxClientChunks}} :
    Start(Envs, Limit(MaxInits, MaxSlots, MaxFaults, 0), u)

Next == Requests \/ Resumes \/ Faults \/ Deliver

NextUpload == ClientRequests \/ Resumes \/ Tick \/ Deliver

NextPair == Requests \/ Resumes \/ Deliver

NextSweep == ClientRequests \/ Resumes \/ Wait \/ Deliver

\* the chunk requests of a session, with declared totals as large as the
\* client's largest upload
DeclaredTotals == 0..MaxUploadTotal

ChunkRequests ==
  \/ \E in \in InitInputs, uploadId \in IDS : InitOk(in, uploadId)
  \/ \E uploadId \in IDS, chunkIndex \in Indices, totalChunks \in DeclaredTotals :
       \/ ChunkNotFound(uploadId, chunkIndex, totalChunks)
       \/ ChunkOutOfRange(uploadId, chunkIndex, totalChunks)
       \/ ChunkDuplicate(uploadId, chunkIndex, totalChunks)
       \/ \E chunk \in Bodies :
            \/ ChunkToMemory(uploadId, chunkIndex, totalChunks, chunk)
            \/ ChunkBegin(uploadId, chunkIndex, totalChunks, chunk)
  \/ \E r \in RIDS : ChunkWrite(r) \/ ChunkRecord(r)

NextChunks == ChunkRequests \/ Deliver

\* the requests of a session served by the earlier chunk handler
EarlierRequests ==
  \/ \E in \in InitInputs, uploadId \in IDS : InitOk(in, uploadId)
  \/ \E uploadId \in IDS, chunkIndex \in ReqIndices, totalChunks \in Totals :
       \/ ChunkNotFound(uploadId, chunkIndex, totalChunks)
       \/ EarlierChunkOutOfRange(uploadId, chunkIndex, totalChunks)
       \/ EarlierChunkDuplicate(uploadId, chunkIndex, totalChunks)
       \/ \E chunk \in Bodies :
            EarlierChunkBegin(uploadId, chunkIndex, totalChunks, chunk)
  \/ \E r \in RIDS : EarlierChunkWrite(r) \/ EarlierChunkRecord(r)

NextEarlier == EarlierRequests \/ Deliver

\* one session, two handlers in flight, storage faults
Spec == Init /\ [][Next]_vars

\* two sessions, one handler in flight, no storage fault
SpecPair == InitPair /\ [][NextPair]_vars

\* one session served by the earlier chunk handler, two handlers in flight
SpecEarlier == Init /\ [][NextEarlier]_vars

\* one session fed by a client that slices its file, two handlers in flight,
\* a clock
SpecUpload == InitUpload /\ [][NextUpload]_vars

\* two sessions fed with the slices of a client's file, one handler in flight,
\* a clock that passes the hour of the sweep
SpecSweep == InitSweep /\ [][NextSweep]_vars

\* one session, one handler in flight, chunk requests that declare any total
SpecChunks == InitChunks /\ [][NextChunks]_vars

\* one upload() of a ChunkedUploader against the server, with network errors,
\* a storage fault and abort()
SpecClient == InitClient /\ [][NextClient]_vars

\* one upload() against the server with lost requests and lost responses, in
\* which every pending step is taken in the end
SpecTransport ==
  InitTransport /\ [][NextTransport]_vars /\ WF_vars(Pending)

(* ------------------------------- claims ------------------------------- *)
\* the session object under an upload id after the step
SessAfter(id) == heap'[uploadSessions'[id]]

\* no handler is suspended
Quiet == \A r \in RIDS : slots[r] = Idle

\* the indices below the session's totalChunks that its ledger does not hold
Missing(session) == (0..(session.totalChunks - 1)) \ DOMAIN session.chunks

\* C1: in every reachable state the ledger of a live session holds at most
\* totalChunks chunks
C1_LedgerWithinTotal ==
  \A id \in IDS :
    Live(id) => Cardinality(DOMAIN Sess(id).chunks) <= Sess(id).totalChunks

\* C2: a complete request for a live session is refused (and the session
\* kept) only as incomplete and only while an index below totalChunks is
\* missing from the ledger; once no index is missing, and no storage fault
\* happened, the request succeeds
C2_CompleteOnceFull ==
  \A id \in IDS :
    (event.op = "complete" /\ event.id = id /\ Live(id) /\ Quiet /\ faults = 0)
      => (event.status = 400 /\ Missing(Sess(id)) # {})

\* C3: a chunk request for an index the ledger already holds is answered with
\* success, leaves the ledger and the received-chunk count as they were, and
\* the progress it reports is not below the session's progress before it
C3_DuplicateIsNoOp ==
  [][\A id \in IDS :
       (/\ Live(id)
        /\ event'.op = "chunk" /\ event'.id = id /\ slots' = slots
        /\ event'.idx \in DOMAIN Sess(id).chunks)
       => (/\ event'.status = 200
           /\ SessAfter(id).chunks = Sess(id).chunks
           /\ SessAfter(id).uploadedChunks = Sess(id).uploadedChunks
           /\ event'.progress >=
                Progress(Sess(id).uploadedChunks, Sess(id).totalChunks))]_vars

\* the step takes in a chunk request for index j of the session under id: it
\* records the chunk, or suspends in the write of its bytes
TakesIn(id, j) ==
  \/ /\ event'.op = "chunk" /\ event'.id = id /\ event'.idx = j
     /\ event'.status = 200 /\ slots' = slots
  \/ \E r \in RIDS :
       /\ slots[r] = Idle /\ slots'[r].kind = "chunk"
       /\ slots'[r].id = id /\ slots'[r].idx = j

\* C4: a chunk request whose index is outside [0, totalChunks) of its session
\* is never taken in, and the step that answers it leaves the ledger alone
C4_OutOfRangeRejected ==
  [][\A id \in IDS, j \in ReqIndices :
       (Live(id) /\ (j < 0 \/ j >= Sess(id).totalChunks))
       => ~TakesIn(id, j)]_vars

RECURSIVE Joined(_, _, _)
\* the client's slices i, i + 1, ... of the file, one after the other
Joined(file, chunkSize, i) ==
  IF i >= ClientTotal(file, chunkSize) THEN <<>>
  ELSE Slice(file, i, chunkSize) \o Joined(file, chunkSize, i + 1)

\* C5: the client's slices, taken in index order, make up the file, and every
\* artifact a completion has written is the client's file, in whatever order
\* the chunks arrived
C5_RoundTrip ==
  /\ Joined(client.file, client.chunkSize, 0) = client.file
  /\ \A n \in DOMAIN finalFiles : finalFiles[n] = client.file

\* the final artifact of a file of three chunks is written, the file is
\* there whole, and the ledger shows that chunk 1 arrived before chunk 0
C5_OutOfOrderArrival ==
  \E r \in RIDS :
    /\ slots[r].kind = "complete" /\ slots[r].pc = "unlink"
    /\ Disk(heap[slots[r].oid].finalFilename) \in DOMAIN finalFiles
    /\ finalFiles[Disk(heap[slots[r].oid].finalFilename)] = client.file
    /\ ClientTotal(client.file, client.chunkSize) > 2
    /\ heap[slots[r].oid].chunks[1].uploadedAt < heap[slots[r].oid].chunks[0].uploadedAt

\* C6: an abort request that carries an upload id is answered with success
\* and leaves no session under the id; when there was none under it (never
\* created, completed, aborted before), the request changes nothing
C6_AbortSucceeds ==
  [][(event'.op = "abort" /\ event'.id # NoId)
       => (/\ event'.status = 200
           /\ uploadSessions'[event'.id] = 0
           /\ (uploadSessions[event'.id] = 0 /\ slots' = slots)
                => UNCHANGED <<uploadSessions, heap, tempFiles, chunkStorage,
                               finalFiles>>)]_vars

\* the final artifacts written for the sessions created under an upload id
FinalsOf(id) == {n \in DOMAIN finalFiles : SubSeq(n[2], 1, ID_LEN) = id}

\* an abort is answered with success for a session that was completed before
C6_AbortAfterComplete ==
  /\ event.op = "abort" /\ event.status = 200
  /\ event.id # NoId /\ FinalsOf(event.id) # {}

\* C7: once an abort of a session is acknowledged the session is not in the
\* table and, no storage fault having happened, no temporary chunk artifact
\* of it is in storage, whatever chunk requests ran beside the abort.  (In
\* these runs a session leaves the table by an acknowledged abort or by a
\* completion, which stores a final artifact.)
C7_AbortLeavesNothing ==
  /\ (event.op = "abort" /\ event.status = 200) => ~Live(event.id)
  /\ \A id \in IDS :
       (~Live(id) /\ FinalsOf(id) = {} /\ faults = 0)
         => \A j \in Indices :
              /\ tempFiles[ChunkKey(id, j)] = Absent
              /\ chunkStorage[ChunkKey(id, j)] = NoEntry

\* the step is one of the assembly of the complete request in slot r before
\* its final artifact is stored: the assembly goes on collecting, or it fails
\* and the request is answered with an error
AssemblyStep(r) ==
  /\ slots[r].kind = "complete" /\ slots[r].pc \in {"read", "fallback"}
  /\ slots'[r] # slots[r]
  /\ IF slots'[r] = Idle THEN event'.op = "complete" /\ event'.status = 500
     ELSE slots'[r].pc \in {"read", "fallback"}

\* C8: while the assembly of a complete request runs, and when it fails, no
\* step of it changes the session table, the session and its ledger, or a
\* stored chunk artifact
C8_FailedAssemblyKeepsSession ==
  [][\A r \in RIDS :
       AssemblyStep(r)
       => (/\ uploadSessions' = uploadSessions
           /\ \A id \in IDS :
                uploadSessions[id] = slots[r].oid
                  => heap'[slots[r].oid] = heap[slots[r].oid]
           /\ tempFiles' = tempFiles
           /\ chunkStorage' = chunkStorage)]_vars

\* a complete request has failed on a storage fault, and the session is in
\* the table with its ledger full and every chunk of it stored
C8_FailedWithAllChunksKept ==
  /\ event.op = "complete" /\ event.status = 500 /\ faults > 0
  /\ Live(event.id) /\ env = "local" /\ Quiet
  /\ Sess(event.id).totalChunks > 0
  /\ Sess(event.id).uploadedChunks = Sess(event.id).totalChunks
  /\ Missing(Sess(event.id)) = {}
  /\ \A j \in DOMAIN Sess(event.id).chunks : ChunkData(Sess(event.id), j) # Absent

\* C9: the step that answers a complete request with success leaves no
\* session under the upload id, and a chunk or complete request for an upload
\* id that has no session is answered as not-found
C9_CompletedSessionIsGone ==
  [][/\ (event'.op = "complete" /\ event'.status = 200)
          => uploadSessions'[event'.id] = 0
     /\ (/\ event'.op \in {"chunk", "complete"} /\ event'.id # NoId
         /\ slots' = slots
         /\ uploadSessions[event'.id] = 0)
          => event'.status = 404]_vars

\* a chunk request is answered as not-found for a session that was completed
\* and whose content type needs conversion
C9_ChunkAfterComplete ==
  /\ event.op = "chunk" /\ event.status = 404
  /\ \E n \in FinalsOf(event.id) : n[2] = event.id

\* C10: a successful init returns an upload id that has no session in the
\* table, so no session is replaced
C10_FreshUploadId ==
  [][(event'.op = "init" /\ event'.status = 200)
       => uploadSessions[event'.id] = 0]_vars

\* C11: an init request that validation rejects (400 for a missing filename,
\* size or title, 413 for a size above 2 GB) allocates nothing: the session
\* table and the session objects are the same before and after it
C11_RejectedInitAllocatesNothing ==
  [][(event'.op = "init" /\ event'.status \in {400, 413})
       => UNCHANGED <<uploadSessions, heap, nextOid, tempFiles, chunkStorage>>]_vars

\* an init is rejected as too large while a session is in the table
C11_TooLargeBesideLiveSession ==
  /\ event.op = "init" /\ event.status = 413
  /\ \E id \in IDS : Live(id)

\* the step is an init whose sweep removes the session under id from the table
Swept(id) ==
  /\ event'.op = "init" /\ event'.id # id
  /\ Live(id) /\ uploadSessions'[id] = 0

\* C13: the sweep removes a session only when more than an hour has passed
\* since the session's last activity
C13_SweepByLastActivity ==
  [][\A id \in IDS : Swept(id) => now - Sess(id).lastActivity > ONE_HOUR]_vars

\* C14: the sweep that removes a session from the table leaves no temporary
\* file and no in-memory chunk of the session in storage
C14_SweepFreesArtifacts ==
  [][\A id \in IDS :
       Swept(id) => \A j \in Indices :
                      /\ tempFiles'[ChunkKey(id, j)] = Absent
                      /\ chunkStorage'[ChunkKey(id, j)] = NoEntry]_vars

\* the session object is in the table
InTable(o) == \E id \in IDS : uploadSessions[id] = o

\* C19: a chunk response that follows the recording of a new chunk in a
\* session reports a progress that is not below the session's progress before
\* the recording
C19_ServerProgressMonotone ==
  [][\A o \in Oids :
       (/\ heap[o].alloc /\ heap'[o].alloc
        /\ DOMAIN heap[o].chunks # DOMAIN heap'[o].chunks
        /\ event'.op = "chunk" /\ event'.status = 200)
       => event'.progress >= Progress(heap[o].uploadedChunks, heap[o].totalChunks)]_vars

\* the step of the chunk handler in slot r writes the bytes of its chunk, or
\* records the chunk in the ledger, although the ledger of its session, which
\* is in the table, holds the index already
WritesAgain(r) ==
  /\ slots[r].kind = "chunk"
  /\ InTable(slots[r].oid)
  /\ slots[r].idx \in DOMAIN heap[slots[r].oid].chunks
  /\ IF slots[r].pc = "save"
     THEN slots'[r].kind = "chunk" /\ slots'[r].pc = "saved"
     ELSE slots'[r] = Idle

\* C20: once an index of a session is in the ledger, no step changes its
\* ledger record, and no chunk handler writes its bytes or its record again
\* while the session is in the table
C20_LedgerInsertOnly ==
  [][/\ \A o \in Oids :
          (heap[o].alloc /\ heap'[o].alloc)
            => \A j \in DOMAIN heap[o].chunks :
                 /\ j \in DOMAIN heap'[o].chunks
                 /\ heap'[o].chunks[j] = heap[o].chunks[j]
     /\ \A r \in RIDS : ~WritesAgain(r)]_vars

\* the requests of the uploader that carry data or control the session
Calls == DOMAIN client.req \ {ABORT}
\* the upload has come to its end without a network error, a storage fault or
\* an abort, for a file sent with a title
Undisturbed ==
  /\ client.pc = "done"
  /\ ~client.aborted /\ client.drops = 0 /\ faults = 0
  /\ Trim(client.title) # <<>>

\* C12: an upload() of a file larger than the chunk size that meets no network
\* error, no storage fault and no abort ends with success returned, the
\* assembled file stored and the session removed, for every chunk count in
\* parallel and in sequential mode.
C12_UndisturbedUploadSucceeds ==
  Undisturbed =>
    /\ client.success
    /\ \E n \in DOMAIN finalFiles : finalFiles[n] = client.file
    /\ \A id \in IDS : ~Live(id)

\* request k is given up in this step
GivenUp(k) == client.req[k].st # "failed" /\ client'.req[k].st = "failed"

\* C15 as stated: no request is attempted more than MAX_RETRIES times, a
\* request with a failed attempt is given up only after MAX_RETRIES attempts,
\* and giving a request up makes upload() return success = false.
C15_RetriedWhileAttemptsRemain ==
  [][\A k \in Calls :
       /\ client'.req[k].attempts <= MAX_RETRIES
       /\ (GivenUp(k) /\ client.req[k].attempts > 0)
            => /\ client.req[k].attempts = MAX_RETRIES
               /\ client'.pc = "done" /\ ~client'.success]_vars

\* C15, amended: no request is attempted more than MAX_RETRIES times, a
\* request with a failed attempt is given up only after MAX_RETRIES attempts
\* or when abort() has been called, and giving a request up makes upload()
\* return success = false.
C15_RetriedUnlessAborted ==
  [][\A k \in Calls :
       /\ client'.req[k].attempts <= MAX_RETRIES
       /\ (GivenUp(k) /\ client.req[k].attempts > 0)
            => /\ client.req[k].attempts = MAX_RETRIES \/ client.aborted
               /\ client'.pc = "done" /\ ~client'.success]_vars

\* a request was given up after its third failed attempt, without an abort
C15_ThirdAttemptFailed ==
  /\ ~client.aborted
  /\ client.pc = "done" /\ ~client.success
  /\ \E k \in Calls :
       client.req[k].st = "failed" /\ client.req[k].attempts = MAX_RETRIES

\* C16: once abort() has set the flag, no attempt of an init, chunk or
\* complete request starts, first attempt or retry; pending requests may
\* finish.
C16_NoAttemptAfterAbort ==
  [][client.aborted =>
       \A k \in Calls :
         /\ client'.req[k].attempts = client.req[k].attempts
         /\ client'.req[k].st = "sent" => client.req[k].st = "sent"]_vars

\* the flag stopped a request that had failed an attempt and had attempts left
C16_RetryCancelled ==
  /\ client.aborted
  /\ \E k \in Calls :
       client.req[k].st = "failed" /\ client.req[k].attempts \in 1..(MAX_RETRIES - 1)

\* C17: when abort() was called after the session had been initialized and
\* upload() has returned its failure, an abort request has been sent.
C17_AbortNotifiesServer ==
  (/\ client.pc = "done" /\ ~client.success
   /\ client.abortedAt \in {"chunks", "complete"})
    => client.req[ABORT].attempts > 0

\* C18: the progress values handed to onProgress never decrease and lie in
\* 0..100, bytesUploaded never exceeds the file size, and once every chunk is
\* accepted bytesUploaded is the file size and the progress is 100.
C18_ClientProgress ==
  [][/\ client'.progress >= client.progress
     /\ client'.progress \in (-1)..100
     /\ client'.progress # client.progress => client'.progress \in 0..100
     /\ client'.bytesUploaded <= Len(client'.file)
     /\ (\A k \in ChunkKeys(TotalOf(client')) : client'.req[k].st = "ok")
          => /\ client'.bytesUploaded = Len(client'.file)
             /\ client'.progress = 100]_vars

\* parallel mode: a later chunk was accepted before the first one
C18_ParallelOutOfOrder ==
  /\ Parallel(client)
  /\ client.req[ReqKey("chunk", 1)].st = "ok"
  /\ client.req[ReqKey("chunk", 0)].st # "ok"
  /\ client.progress \in 1..99

\* C21: a chunk request rejected for its index leaves the session's
\* totalChunks, ledger and uploadedChunks as they were.
C21_RejectedIndexLeavesSession ==
  [][\A id \in IDS :
       (/\ event'.op = "chunk" /\ event'.status = 400 /\ event'.id = id
        /\ Live(id))
       => /\ uploadSessions'[id] = uploadSessions[id]
          /\ SessAfter(id).totalChunks = Sess(id).totalChunks
          /\ SessAfter(id).chunks = Sess(id).chunks
          /\ SessAfter(id).uploadedChunks = Sess(id).uploadedChunks]_vars

\* C22: under every interleaving of the chunk requests of a session no update
\* is lost: uploadedChunks is the size of the ledger in every state, an index
\* once in the ledger stays there, and an index acknowledged with success is
\* in the ledger of its session.
C22_NoLostUpdate ==
  [][/\ \A o \in Oids :
          heap'[o].alloc
            => heap'[o].uploadedChunks = Cardinality(DOMAIN heap'[o].chunks)
     /\ \A o \in Oids :
          (heap[o].alloc /\ heap'[o].alloc)
            => DOMAIN heap[o].chunks \subseteq DOMAIN heap'[o].chunks
     /\ \A id \in IDS :
          (/\ event'.op = "chunk" /\ event'.status = 200 /\ event'.id = id
           /\ Live(id) /\ uploadSessions'[id] = uploadSessions[id])
          => event'.idx \in DOMAIN SessAfter(id).chunks]_vars

\* a step of the complete handler suspended in slot r
CompleteStep(r) == slots[r].kind = "complete" /\ slots'[r] # slots[r]
\* the step removes the chunk artifact stored under key k
Deleted(k) ==
  \/ tempFiles[k] # Absent /\ tempFiles'[k] = Absent
  \/ chunkStorage[k] # NoEntry /\ chunkStorage'[k] = NoEntry
\* the final artifact of the session is stored after the step
StoredAfter(session) ==
  \/ Disk(session.finalFilename) \in DOMAIN finalFiles'
  \/ Blob(session.finalFilename) \in DOMAIN finalFiles'
\* the handler in slot r is the only completion or abort at work on its
\* session, and the session is in the table
Alone(r) ==
  /\ InTable(slots[r].oid)
  /\ \A q \in RIDS \ {r} :
       ~(slots[q].kind \in {"complete", "abort"} /\ slots[q].oid = slots[r].oid)
\* the bytes of every chunk in the ledger are stored after the step
AllKeptAfter(session) ==
  \A j \in DOMAIN session.chunks :
    IF session.useCloudStorage
    THEN chunkStorage'[session.chunks[j].filename] # NoEntry
    ELSE tempFiles'[session.chunks[j].filename] # Absent

\* C23: a completion deletes a chunk artifact only after its write of the
\* final artifact has succeeded, and when the write fails every chunk
\* artifact of the session is still stored.
C23_DeleteAfterWrite ==
  [][\A r \in RIDS :
       CompleteStep(r) =>
         /\ (\E k \in Keys : Deleted(k))
              => /\ StoredAfter(heap[slots[r].oid])
                 /\ \/ slots[r].pc = "unlink"
                    \/ event'.op = "complete" /\ event'.status = 200
         /\ (/\ slots'[r] = Idle /\ event'.status = 500
             /\ slots[r].i >= heap[slots[r].oid].totalChunks
             /\ Alone(r))
              => AllKeptAfter(heap[slots[r].oid])]_vars

\* the upload to the blob store and the local write of the fallback have both
\* failed, and the chunks of the session are all in the memory store
C23_FallbackFailedChunksKept ==
  /\ event.op = "complete" /\ event.status = 500
  /\ faults = MaxFaults + 1
  /\ Live(event.id)
  /\ Sess(event.id).uploadedChunks > 0
  /\ \A j \in DOMAIN Sess(event.id).chunks :
       chunkStorage[Sess(event.id).chunks[j].filename] # NoEntry

\* C24: an index enters the ledger only in a step that answers its request
\* with success and only with its bytes stored, and a chunk request that ends
\* with an error leaves the ledger and uploadedChunks of its session as they
\* were.
C24_StoredBeforeRecorded ==
  [][/\ \A o \in Oids :
          (heap[o].alloc /\ heap'[o].alloc)
            => \A j \in (DOMAIN heap'[o].chunks) \ (DOMAIN heap[o].chunks) :
                 /\ event'.op = "chunk" /\ event'.status = 200 /\ event'.idx = j
                 /\ IF heap'[o].useCloudStorage
                    THEN chunkStorage'[heap'[o].chunks[j].filename] # NoEntry
                    ELSE tempFiles'[heap'[o].chunks[j].filename] # Absent
     /\ \A r \in RIDS :
          (/\ slots[r].kind = "chunk" /\ slots'[r] = Idle
           /\ event'.status = 500 /\ heap'[slots[r].oid].alloc)
            => /\ heap'[slots[r].oid].chunks = heap[slots[r].oid].chunks
               /\ heap'[slots[r].oid].uploadedChunks = heap[slots[r].oid].uploadedChunks]_vars

\* the write of a chunk failed, the uploader sent the chunk again and it was
\* accepted
C24_AcceptedAfterFailedStore ==
  /\ faults = 1 /\ client.drops = 0
  /\ event.op = "chunk" /\ event.status = 200
  /\ client.req[ReqKey("chunk", event.idx)].attempts = 2
  /\ event.idx \in DOMAIN Sess(event.id).chunks

\* C25: whenever uploadedChunks equals totalChunks in a live session, its
\* ledger holds exactly the indices 0..totalChunks-1.
C25_FullLedgerIsContiguous ==
  \A id \in IDS :
    (Live(id) /\ Sess(id).uploadedChunks = Sess(id).totalChunks)
      => DOMAIN Sess(id).chunks = 0..(Sess(id).totalChunks - 1)

\* the complete handler in slot r stores the final artifact in this step
WritesFinal(r) ==
  /\ CompleteStep(r)
  /\ \/ /\ slots[r].pc = "read"
        /\ slots'[r].kind = "complete" /\ slots'[r].pc = "unlink"
     \/ /\ slots[r].pc \in {"read", "fallback"} /\ slots'[r] = Idle
        /\ event'.status = 200
\* the final artifact of the session is stored before the step
StoredBefore(session) ==
  \/ Disk(session.finalFilename) \in DOMAIN finalFiles
  \/ Blob(session.finalFilename) \in DOMAIN finalFiles

\* C26: the final artifact of a session is written at most once, also when
\* two complete requests are in flight together; as a complete request is
\* answered with success only after its own write, at most one of them is
\* then answered with success.
C26_CompletedOnce ==
  [][\A r \in RIDS :
       WritesFinal(r) => ~StoredBefore(heap[slots[r].oid])]_vars

\* no completion and no abort is at work on the session object o
Untouched(o) ==
  \A r \in RIDS : ~(slots[r].kind \in {"complete", "abort"} /\ slots[r].oid = o)

\* C27: for every live session that is not being completed or aborted, the
\* bytes of every chunk in its ledger are stored: the temporary file exists,
\* or the memory store holds the key.
C27_LedgerChunksStored ==
  \A id \in IDS :
    (Live(id) /\ Untouched(uploadSessions[id]))
      => \A j \in DOMAIN Sess(id).chunks :
           IF Sess(id).useCloudStorage
           THEN chunkStorage[Sess(id).chunks[j].filename] # NoEntry
           ELSE tempFiles[Sess(id).chunks[j].filename] # Absent

\* C28: once upload() has returned, no chunk request of the upload is pending
\* (none is still in flight and none has been issued since).
C28_NoChunkAfterReturn ==
  client.pc = "done"
    => \A k \in ChunkKeys(TotalOf(client)) : client.req[k].st # "sent"

\* C29: when the server has completed the session of the upload (final
\* artifact stored, session removed) and upload() has returned, it has
\* returned success; stated for an upload without abort() and without a
\* storage fault, in which one fetch was rejected by the transport.
C29_CompletedMeansSuccess ==
  (/\ client.pc = "done"
   /\ ~client.aborted /\ faults = 0 /\ client.drops = 1
   /\ client.req[COMPLETE].attempts > 0
   /\ \E n \in DOMAIN finalFiles : finalFiles[n] = client.file
   /\ ~Live(client.uploadId))
    => client.success

====
